---- MODULE Spec2Model ----
(***************************************************************************)
(* Streaming chat relay of ai-chat-backend: stream_chat, clear_chat and    *)
(* get_history of src/main.py and src/main_multimodal.py over the global   *)
(* dictionary `conversations`.                                             *)
(*                                                                         *)
(* stream_chat is an async generator run by the event loop: the code       *)
(* between two suspension points (an await on the backend, a yield to the  *)
(* caller) runs without interleaving, so each action below is one such     *)
(* stretch of code.  Text is a sequence of one-character strings.          *)
(***************************************************************************)
EXTENDS Integers, Sequences, FiniteSets, TLC

\* ----------------------------------------------------------------- bounds
\* Lines read per request: of any backend, and of a well-behaved one when
\* requests run concurrently.
MaxLines == 3
MaxChatLines == 1

\* The generators in flight; a lone request is request 1.
Requests == {1, 2}
SessionIds == {"s1", "s2"}
UserMessages == {<<"p">>, <<"q">>}
Images == {"none", "img"}

\* ------------------------------------------------------------ JSON values
\* What json.loads returns: None, bool, number, str, list, dict.
JNull == [t |-> "null"]
JBool(b) == [t |-> "bool", b |-> b]
JNum == [t |-> "num"]
JStr(s) == [t |-> "str", s |-> s]
JArr(items) == [t |-> "arr", items |-> items]
JObj(f) == [t |-> "obj", f |-> f]

\* A backend line: whitespace only, text json.loads rejects, or the text of
\* a JSON value.
BlankLine == [kind |-> "blank"]
GarbageLine == [kind |-> "garbage"]
JsonLine(v) == [kind |-> "json", val |-> v]

KeyChars(key) ==
  CASE key = "message" -> <<"m", "e", "s", "s", "a", "g", "e">>
    [] key = "content" -> <<"c", "o", "n", "t", "e", "n", "t">>
    [] OTHER -> <<key>>

IsSubstring(sub, s) ==
  \E i \in 0..(Len(s) - Len(sub)) : SubSeq(s, i + 1, i + Len(sub)) = sub

\* Python's `key in v`: raises TypeError on None, bool and numbers.
InRaises(v) == v.t \in {"null", "bool", "num"}

InHolds(key, v) ==
  CASE v.t = "obj" -> key \in DOMAIN v.f
    [] v.t = "str" -> IsSubstring(KeyChars(key), v.s)
    [] v.t = "arr" -> \E i \in 1..Len(v.items) : v.items[i] = JStr(KeyChars(key))
    [] OTHER -> FALSE

\* Python truthiness of a JSON value.
Truthy(v) ==
  CASE v.t = "null" -> FALSE
    [] v.t = "bool" -> v.b
    [] v.t = "num" -> TRUE
    [] v.t = "str" -> Len(v.s) > 0
    [] v.t = "arr" -> Len(v.items) > 0
    [] OTHER -> DOMAIN v.f # {}

\* ------------------------------------------------------- decoding a frame
NoExc == "none"
Raise(e) == [exc |-> e, has |-> FALSE, chunk |-> <<>>]
NoContent == [exc |-> NoExc, has |-> FALSE, chunk |-> <<>>]
Content(c) == [exc |-> NoExc, has |-> TRUE, chunk |-> c]

\* if "message" in data and "content" in data["message"]:
\*     chunk = data["message"]["content"]; full_response += chunk
ContentStep(data) ==
  IF InRaises(data) THEN Raise("TypeError")
  ELSE IF ~InHolds("message", data) THEN NoContent
  ELSE IF data.t # "obj" THEN Raise("TypeError")
  ELSE LET m == data.f["message"] IN
    IF InRaises(m) THEN Raise("TypeError")
    ELSE IF ~InHolds("content", m) THEN NoContent
    ELSE IF m.t # "obj" THEN Raise("TypeError")
    ELSE IF m.f["content"].t # "str" THEN Raise("TypeError")
    ELSE Content(m.f["content"].s)

\* Mutant: the default of data.get is True.
DoneStepDefaultTrue(data) ==
  IF data.t # "obj" THEN [exc |-> "AttributeError", done |-> FALSE]
  ELSE [exc |-> NoExc,
        done |-> IF "done" \in DOMAIN data.f THEN Truthy(data.f["done"]) ELSE TRUE]

\* data.get("done", False)
DoneStep(data) ==
  IF data.t # "obj" THEN [exc |-> "AttributeError", done |-> FALSE]
  ELSE [exc |-> NoExc,
        done |-> IF "done" \in DOMAIN data.f THEN Truthy(data.f["done"]) ELSE FALSE]

\* Mutant: `=` for `+=`.
AccumulateOverwrite(full, chunk) == chunk

\* full_response += chunk
Accumulate(full, chunk) == full \o chunk

\* -------------------------------------------------- frames to the caller
\* Mutant: an empty chunk is taken for the end of the stream.
ChunkFrameEmptyIsDone(chunk) == [chunk |-> chunk, done |-> chunk = <<>>]

ChunkFrame(chunk) == [chunk |-> chunk, done |-> FALSE]
TerminalFrame == [chunk |-> <<>>, done |-> TRUE]
\* Mutant: the error frame does not end the stream.
ErrorFrameNotDone(msg) == [error |-> msg, done |-> FALSE]

ErrorFrame(msg) == [error |-> msg, done |-> TRUE]

ConnectErrorMsg(img) ==
  IF img # "none" THEN <<"AI is currently unavailable", "ollama pull llava">>
  ELSE <<"AI is currently unavailable">>
ExceptionMsg(e) == <<"Error: ", e>>

\* ------------------------------------------------------------------ turns
UserTurn(msg, img) ==
  IF img # "none" THEN [role |-> "user", content |-> msg, images |-> <<img>>]
  ELSE [role |-> "user", content |-> msg]
AssistantTurn(full) == [role |-> "assistant", content |-> full]
SystemTurn == [role |-> "system", content |-> <<"SYSTEM_PROMPT">>]

\* Mutant: the text model whatever the request carries.
SelectModelTextOnly(img) == "qwen2.5:0.5b"

SelectModel(img) == IF img # "none" THEN "llava" ELSE "qwen2.5:0.5b"

\* --------------------------------------------------------- backend lines
Msg(f) == JsonLine(JObj(f))
LineContentA == Msg([message |-> JObj([role |-> JStr(<<"a">>), content |-> JStr(<<"a">>)]),
                     done |-> JBool(FALSE)])
LineContentEmpty == Msg([message |-> JObj([content |-> JStr(<<>>)])])
LineContentDone == Msg([message |-> JObj([content |-> JStr(<<"b">>)]), done |-> JBool(TRUE)])
LineDone == Msg([done |-> JBool(TRUE)])
LineNoContent == Msg([message |-> JObj([role |-> JStr(<<"a">>)])])
LineUpstreamError == Msg([error |-> JStr(<<"e">>)])
LineNumber == JsonLine(JNum)
LineArray == JsonLine(JArr(<<>>))
LineMessageNull == Msg([message |-> JNull, done |-> JBool(TRUE)])
LineMessageText == Msg([message |-> JStr(<<"a">>)])
LineMessageContentText == Msg([message |-> JStr(KeyChars("content"))])
LineContentNumber == Msg([message |-> JObj([content |-> JNum]), done |-> JBool(TRUE)])

\* Lines of a well-behaved backend, and every line the relay may be sent.
ChatLines == {LineContentA, LineContentDone, LineDone}
BackendLines ==
  ChatLines \cup
  {BlankLine, GarbageLine, LineContentEmpty, LineNoContent, LineUpstreamError,
   LineNumber, LineArray, LineMessageNull, LineMessageText,
   LineMessageContentText, LineContentNumber}

\* ------------------------------------------------------------------ state
VARIABLES
  conversations,  \* the global dict: session key -> list of turns
  reply,          \* body of the last clear_chat / get_history response
  pc,             \* where each stream_chat generator is suspended
  req,            \* its ChatRequest
  messages,       \* the messages of its backend payload
  model,          \* the model of its backend payload
  conn,           \* how opening the backend stream ended
  lines,          \* the backend lines it has read
  full_response,  \* its accumulator
  out,            \* the frames it has yielded to the caller
  appended,       \* history: the turns it has appended to conversations
  clearedSince,   \* history: its session was cleared after it started
  vision_available \* environment: the backend has the vision model

vars == <<conversations, reply, pc, req, messages, model, conn, lines,
          full_response, out, appended, clearedSince, vision_available>>

NoRequest == [session_id |-> "", message |-> <<>>, image_base64 |-> "none"]
NoReply == [status |-> "none"]

\* The state of a fresh process, the backend's models left open.
Fresh ==
  /\ conversations = <<>>
  /\ reply = NoReply
  /\ pc = [r \in Requests |-> "idle"]
  /\ req = [r \in Requests |-> NoRequest]
  /\ messages = [r \in Requests |-> <<>>]
  /\ model = [r \in Requests |-> ""]
  /\ conn = [r \in Requests |-> "pending"]
  /\ lines = [r \in Requests |-> <<>>]
  /\ full_response = [r \in Requests |-> <<>>]
  /\ out = [r \in Requests |-> <<>>]
  /\ appended = [r \in Requests |-> <<>>]
  /\ clearedSince = [r \in Requests |-> FALSE]

Init == Fresh /\ vision_available = TRUE

\* conversations[key].append(turn); the key is missing for no reachable
\* request (clear_chat keeps the key).
HasKey(key) == key \in DOMAIN conversations
\* Mutant: the turn is dropped when the transcript is empty.
AppendTurnUnlessEmpty(key, turn) ==
  IF conversations[key] = <<>> THEN conversations
  ELSE [conversations EXCEPT ![key] = Append(@, turn)]

\* Mutant: insert(0, turn) for append(turn).
AppendTurnFront(key, turn) == [conversations EXCEPT ![key] = <<turn>> \o @]

AppendTurn(key, turn) == [conversations EXCEPT ![key] = Append(@, turn)]

\* Mutant: the list is assigned without the `not in` test.
GetOrCreateReset(key) ==
  [k \in DOMAIN conversations \cup {key} |->
     IF k = key THEN <<>> ELSE conversations[k]]

\* if req.session_id not in conversations: conversations[req.session_id] = []
GetOrCreate(key) ==
  IF HasKey(key) THEN conversations
  ELSE [k \in DOMAIN conversations \cup {key} |->
          IF k = key THEN <<>> ELSE conversations[k]]

\* Mutant: messages is the transcript itself (no copy), so the system
\* turn is inserted into the stored list.
StartAliased(r, key, msg, img) ==
  /\ pc[r] = "idle"
  /\ LET turn == UserTurn(msg, img)
         convs == GetOrCreate(key)
     IN /\ conversations' = [convs EXCEPT ![key] = <<SystemTurn>> \o Append(@, turn)]
        /\ messages' = [messages EXCEPT ![r] = conversations'[key]]
        /\ appended' = [appended EXCEPT ![r] = <<turn>>]
  /\ req' = [req EXCEPT ![r] = [session_id |-> key, message |-> msg, image_base64 |-> img]]
  /\ model' = [model EXCEPT ![r] = SelectModel(img)]
  /\ pc' = [pc EXCEPT ![r] = "connecting"]
  /\ UNCHANGED <<reply, conn, lines, full_response, out, clearedSince, vision_available>>

\* stream_chat up to its first await: the user turn is appended and the
\* payload is built from the transcript as it then stands.
Start(r, key, msg, img) ==
  /\ pc[r] = "idle"
  /\ LET turn == UserTurn(msg, img)
         convs == GetOrCreate(key)
     IN /\ conversations' = [convs EXCEPT ![key] = Append(@, turn)]
        /\ messages' = [messages EXCEPT ![r] = <<SystemTurn>> \o conversations'[key]]
        /\ appended' = [appended EXCEPT ![r] = <<turn>>]
  /\ req' = [req EXCEPT ![r] = [session_id |-> key, message |-> msg, image_base64 |-> img]]
  /\ model' = [model EXCEPT ![r] = SelectModel(img)]
  /\ pc' = [pc EXCEPT ![r] = "connecting"]
  /\ UNCHANGED <<reply, conn, lines, full_response, out, clearedSince, vision_available>>

\* An exception caught by one of the two except clauses: one error frame.
Fail(r, msg) ==
  /\ out' = [out EXCEPT ![r] = Append(@, ErrorFrame(msg))]
  /\ pc' = [pc EXCEPT ![r] = "yield_error"]

\* client.stream(...) entered: full_response = "" and the loop awaits a line.
ConnectOk(r) ==
  /\ pc[r] = "connecting"
  /\ conn' = [conn EXCEPT ![r] = "ok"]
  /\ full_response' = [full_response EXCEPT ![r] = <<>>]
  /\ pc' = [pc EXCEPT ![r] = "reading"]
  /\ UNCHANGED <<conversations, reply, req, messages, model, lines, out,
                 appended, clearedSince, vision_available>>

\* client.stream(...) raises: httpx.ConnectError, or another exception
\* (a connect timeout, say).
ConnectFail(r, e) ==
  /\ pc[r] = "connecting"
  /\ conn' = [conn EXCEPT ![r] = e]
  /\ IF e = "ConnectError"
       THEN Fail(r, ConnectErrorMsg(req[r].image_base64))
       ELSE Fail(r, ExceptionMsg(e))
  /\ UNCHANGED <<conversations, reply, req, messages, model, lines,
                 full_response, appended, clearedSince, vision_available>>

\* Mutant: no `break`, the loop awaits the next line.
AfterTerminalNoBreak == "reading"

\* The pc after the terminal frame is taken: `break` leaves the loop.
AfterTerminal == "closed"

\* Mutant: one accumulator shared by all generators.
CommitTextShared(r) == full_response[1] \o full_response[2]

\* "content": full_response, the generator's own accumulator.
CommitText(r) == full_response[r]

\* if data.get("done", False): append the assistant turn, yield the terminal
\* frame.  Otherwise the loop awaits the next line.
CheckDone(r, data) ==
  LET d == DoneStep(data)
      key == req[r].session_id
      turn == AssistantTurn(CommitText(r))
  IN IF d.exc # NoExc
       THEN /\ Fail(r, ExceptionMsg(d.exc))
            /\ UNCHANGED <<conversations, appended>>
     ELSE IF d.done /\ ~HasKey(key)
       THEN /\ Fail(r, ExceptionMsg("KeyError"))
            /\ UNCHANGED <<conversations, appended>>
     ELSE IF d.done
       THEN /\ conversations' = AppendTurn(key, turn)
            /\ appended' = [appended EXCEPT ![r] = Append(@, turn)]
            /\ out' = [out EXCEPT ![r] = Append(@, TerminalFrame)]
            /\ pc' = [pc EXCEPT ![r] = "yield_done"]
     ELSE /\ pc' = [pc EXCEPT ![r] = "reading"]
          /\ UNCHANGED <<conversations, appended, out>>

\* The log of lines read keeps the last MaxLines lines.
Logged(ls) == IF Len(ls) > MaxLines THEN Tail(ls) ELSE ls

\* if line.strip(): ...; except json.JSONDecodeError: continue
Skips(line) == line.kind \in {"blank", "garbage"}

\* One line from response.aiter_lines(), up to the next yield or await.
ReadLine(r, line) ==
  /\ pc[r] = "reading"
  /\ lines' = [lines EXCEPT ![r] = Logged(Append(@, line))]
  /\ IF Skips(line)
       THEN UNCHANGED <<conversations, appended, out, pc, full_response>>
     ELSE LET c == ContentStep(line.val) IN
       IF c.exc # NoExc
         THEN /\ Fail(r, ExceptionMsg(c.exc))
              /\ UNCHANGED <<conversations, appended, full_response>>
       ELSE IF c.has
         THEN /\ full_response' = [full_response EXCEPT ![r] = Accumulate(@, c.chunk)]
              /\ out' = [out EXCEPT ![r] = Append(@, ChunkFrame(c.chunk))]
              /\ pc' = [pc EXCEPT ![r] = "yield_chunk"]
              /\ UNCHANGED <<conversations, appended>>
       ELSE /\ CheckDone(r, line.val)
            /\ UNCHANGED full_response
  /\ UNCHANGED <<reply, req, messages, model, conn, clearedSince, vision_available>>

\* The caller took the chunk frame: the generator goes on to the done check
\* of the same line.
ResumeAfterChunk(r) ==
  /\ pc[r] = "yield_chunk"
  /\ CheckDone(r, lines[r][Len(lines[r])].val)
  /\ UNCHANGED <<reply, req, messages, model, conn, lines, full_response,
                 clearedSince, vision_available>>

\* The backend closes the stream: the loop ends and the generator returns.
ReadEOF(r) ==
  /\ pc[r] = "reading"
  /\ pc' = [pc EXCEPT ![r] = "closed"]
  /\ UNCHANGED <<conversations, reply, req, messages, model, conn, lines,
                 full_response, out, appended, clearedSince, vision_available>>

\* Awaiting a line raises (read timeout, protocol error).
ReadFail(r, e) ==
  /\ pc[r] = "reading"
  /\ Fail(r, ExceptionMsg(e))
  /\ UNCHANGED <<conversations, reply, req, messages, model, conn, lines,
                 full_response, appended, clearedSince, vision_available>>

\* The caller took the terminal or the error frame: the generator returns.
Finish(r) ==
  /\ \/ pc[r] = "yield_done" /\ pc' = [pc EXCEPT ![r] = AfterTerminal]
     \/ pc[r] = "yield_error" /\ pc' = [pc EXCEPT ![r] = "closed"]
  /\ UNCHANGED <<conversations, reply, req, messages, model, conn, lines,
                 full_response, out, appended, clearedSince, vision_available>>

\* Mutant: a cleanup clause stores what was accumulated.
CancelCommitPartial(r) == <<AssistantTurn(full_response[r])>>

\* Turns appended when the generator is closed or cancelled at a suspension
\* point: neither except clause catches GeneratorExit or CancelledError.
CancelCommit(r) == <<>>

\* The caller disconnects: the response stops iterating the generator.
Disconnect(r) ==
  /\ pc[r] \in {"connecting", "reading", "yield_chunk", "yield_done", "yield_error"}
  /\ pc' = [pc EXCEPT ![r] = "cancelled"]
  /\ conversations' =
       IF HasKey(req[r].session_id)
         THEN [conversations EXCEPT ![req[r].session_id] = @ \o CancelCommit(r)]
         ELSE conversations
  /\ appended' = [appended EXCEPT ![r] = @ \o CancelCommit(r)]
  /\ UNCHANGED <<reply, req, messages, model, conn, lines, full_response, out,
                 clearedSince, vision_available>>

\* Mutant: del conversations[session_id] for the assignment of [].
ClearDeletesKey(key) ==
  /\ conversations' = [k \in DOMAIN conversations \ {key} |-> conversations[k]]
  /\ reply' = [status |-> "cleared"]
  /\ clearedSince' = [r \in Requests |->
       clearedSince[r] \/ (pc[r] # "idle" /\ req[r].session_id = key)]
  /\ UNCHANGED <<pc, req, messages, model, conn, lines, full_response, out, appended, vision_available>>

\* Mutant: conversations.clear() followed by a fresh list for the key.
ClearEverySession(key) ==
  /\ conversations' = [k \in DOMAIN conversations |-> <<>>]
  /\ reply' = [status |-> "cleared"]
  /\ clearedSince' = [r \in Requests |->
       clearedSince[r] \/ (pc[r] # "idle" /\ req[r].session_id = key)]
  /\ UNCHANGED <<pc, req, messages, model, conn, lines, full_response, out, appended, vision_available>>

\* Mutant: the list is assigned without the `in` test.
ClearAlwaysAssign(key) ==
  /\ conversations' = [k \in DOMAIN conversations \cup {key} |->
                         IF k = key THEN <<>> ELSE conversations[k]]
  /\ reply' = [status |-> "cleared"]
  /\ clearedSince' = [r \in Requests |->
       clearedSince[r] \/ (pc[r] # "idle" /\ req[r].session_id = key)]
  /\ UNCHANGED <<pc, req, messages, model, conn, lines, full_response, out, appended, vision_available>>

\* clear_chat
Clear(key) ==
  /\ conversations' = IF HasKey(key) THEN [conversations EXCEPT ![key] = <<>>]
                      ELSE conversations
  /\ reply' = [status |-> "cleared"]
  /\ clearedSince' = [r \in Requests |->
       clearedSince[r] \/ (pc[r] # "idle" /\ req[r].session_id = key)]
  /\ UNCHANGED <<pc, req, messages, model, conn, lines, full_response, out, appended, vision_available>>

\* get_history
History(key) ==
  /\ reply' = [history |-> IF HasKey(key) THEN conversations[key] ELSE <<>>]
  /\ UNCHANGED <<conversations, pc, req, messages, model, conn, lines,
                 full_response, out, appended, clearedSince, vision_available>>

ConnectErrors == {"ConnectError", "ConnectTimeout"}
ReadErrors == {"ReadTimeout"}

\* One request against any backend, with clears and history reads.
Next ==
  \/ \E key \in SessionIds, msg \in UserMessages, img \in Images :
       Start(1, key, msg, img)
  \/ ConnectOk(1)
  \/ \E e \in ConnectErrors : ConnectFail(1, e)
  \/ \E line \in BackendLines : Len(lines[1]) < MaxLines /\ ReadLine(1, line)
  \/ ResumeAfterChunk(1)
  \/ ReadEOF(1)
  \/ \E e \in ReadErrors : ReadFail(1, e)
  \/ Finish(1)
  \/ Disconnect(1)
  \/ \E key \in SessionIds : Clear(key)
  \/ \E key \in SessionIds : History(key)

Spec == Init /\ [][Next]_vars

\* Concurrent requests against a well-behaved backend.
NextConcurrent ==
  \/ \E r \in Requests, key \in SessionIds, img \in Images :
       Start(r, key, <<"p", r>>, img)
  \/ \E r \in Requests : ConnectOk(r)
  \/ \E r \in Requests, e \in ConnectErrors : ConnectFail(r, e)
  \/ \E r \in Requests, line \in ChatLines :
       Len(lines[r]) < MaxChatLines /\ ReadLine(r, line)
  \/ \E r \in Requests : ResumeAfterChunk(r)
  \/ \E r \in Requests : ReadEOF(r)
  \/ \E r \in Requests, e \in ReadErrors : ReadFail(r, e)
  \/ \E r \in Requests : Finish(r)
  \/ \E r \in Requests : Disconnect(r)
  \/ \E key \in SessionIds : Clear(key)
  \/ \E key \in SessionIds : History(key)

SpecConcurrent == Init /\ [][NextConcurrent]_vars

\* One request with an attachment or without, against a backend that may
\* lack the vision model.
InitVision == Fresh /\ vision_available \in BOOLEAN

\* The lines the backend streams to request r: a backend without the model
\* the payload names answers with an error body.
ServedLines(r) ==
  IF model[r] = "llava" /\ ~vision_available THEN {LineUpstreamError}
  ELSE ChatLines \cup {LineContentEmpty}

NextVision ==
  \/ \E key \in SessionIds, msg \in UserMessages, img \in Images :
       Start(1, key, msg, img)
  \/ ConnectOk(1)
  \/ \E e \in ConnectErrors : ConnectFail(1, e)
  \/ \E line \in ServedLines(1) : Len(lines[1]) < MaxLines /\ ReadLine(1, line)
  \/ ResumeAfterChunk(1)
  \/ ReadEOF(1)
  \/ \E e \in ReadErrors : ReadFail(1, e)
  \/ Finish(1)
  \/ Disconnect(1)
  \/ \E key \in SessionIds : Clear(key)
  \/ \E key \in SessionIds : History(key)

SpecVision == InitVision /\ [][NextVision]_vars

\* One request against a backend that may stream without end: blank and
\* undecodable lines at any time, at most MaxLines frames of content (the
\* payload's num_predict bounds the tokens of a response).
LiveLines == {BlankLine, GarbageLine, LineContentA, LineDone, LineNumber}
Grows(line) == ~Skips(line) /\ ContentStep(line.val).has

\* The steps of the generator of request 1 that the event loop runs once
\* the awaited connection, line or caller is ready.
RelayStep ==
  \/ ConnectOk(1)
  \/ \E e \in ConnectErrors : ConnectFail(1, e)
  \/ \E line \in LiveLines :
       (Grows(line) => Len(out[1]) < MaxLines) /\ ReadLine(1, line)
  \/ ResumeAfterChunk(1)
  \/ ReadEOF(1)
  \/ \E e \in ReadErrors : ReadFail(1, e)
  \/ Finish(1)

NextLive ==
  \/ \E key \in SessionIds, msg \in UserMessages, img \in Images :
       Start(1, key, msg, img)
  \/ RelayStep
  \/ Disconnect(1)
  \/ \E key \in SessionIds : Clear(key)

SpecLive == Init /\ [][NextLive]_vars /\ WF_vars(RelayStep)

\* ======================================================== the properties
Last(seq) == seq[Len(seq)]
IsErrorFrame(f) == f.done /\ "error" \in DOMAIN f
IsTerminalFrame(f) == f.done /\ "error" \notin DOMAIN f
IsChunkFrame(f) == ~f.done
DoneFrames(r) == {i \in 1..Len(out[r]) : out[r][i].done}
AssistantTurns(r) == {i \in 1..Len(appended[r]) : appended[r][i].role = "assistant"}
OwnUserTurn(r) == UserTurn(req[r].message, req[r].image_base64)

\* The texts of the content-delta frames of a caller stream, in order, and
\* their concatenation.
ChunkSeq(o) ==
  LET deltas == SelectSeq(o, IsChunkFrame)
  IN [i \in 1..Len(deltas) |-> deltas[i].chunk]
RECURSIVE Concat(_)
Concat(texts) == IF texts = <<>> THEN <<>> ELSE Head(texts) \o Concat(Tail(texts))

\* What the local-chat protocol says of a line, read off the line itself.
IsObjectLine(line) == line.kind = "json" /\ line.val.t = "obj"
HasMessageObject(line) ==
  /\ IsObjectLine(line)
  /\ "message" \in DOMAIN line.val.f
  /\ line.val.f.message.t = "obj"
CarriesText(line) ==
  /\ HasMessageObject(line)
  /\ "content" \in DOMAIN line.val.f.message.f
  /\ line.val.f.message.f.content.t = "str"
Malformed(line) ==
  \/ ~IsObjectLine(line)
  \/ "message" \in DOMAIN line.val.f /\ line.val.f.message.t # "obj"
  \/ /\ HasMessageObject(line)
     /\ "content" \in DOMAIN line.val.f.message.f
     /\ line.val.f.message.f.content.t # "str"
SignalsDone(line) ==
  /\ IsObjectLine(line)
  /\ ~Malformed(line)
  /\ "done" \in DOMAIN line.val.f
  /\ line.val.f.done = JBool(TRUE)
IsUpstreamError(line) == IsObjectLine(line) /\ "error" \in DOMAIN line.val.f
ContentTexts(ls) ==
  LET carrying == SelectSeq(ls, CarriesText)
  IN [i \in 1..Len(carrying) |-> carrying[i].val.f.message.f.content.s]

\* C1: a request read to the end has emitted exactly one frame with
\* done=true, and that frame is its last, whatever the backend did.
C1_ExactlyOneDoneFrameLast ==
  \A r \in Requests :
    pc[r] = "closed" =>
      /\ Cardinality(DoneFrames(r)) = 1
      /\ Last(out[r]).done

\* C2: when a request has emitted the terminal frame, the assistant turn it
\* appended holds the concatenation, in order, of the chunk texts it emitted.
C2_CommittedTextIsConcatOfChunks ==
  \A r \in Requests :
    (out[r] # <<>> /\ IsTerminalFrame(Last(out[r]))) =>
      appended[r] = <<OwnUserTurn(r), AssistantTurn(Concat(ChunkSeq(out[r])))>>

C2_Witness ==
  /\ pc[1] = "closed"
  /\ lines[1] = <<LineContentA, LineContentDone>>
  /\ out[1] = <<ChunkFrame(<<"a">>), ChunkFrame(<<"b">>), TerminalFrame>>
  /\ appended[1][2] = AssistantTurn(<<"a", "b">>)

\* C3: a request appends at most one assistant turn, only when the line it
\* has just read signals done, and none when it ends in an error frame or
\* without a done frame.
C3_AssistantTurnOnlyOnDone ==
  \A r \in Requests :
    /\ Cardinality(AssistantTurns(r)) <= 1
    /\ AssistantTurns(r) # {} =>
         /\ lines[r] # <<>>
         /\ SignalsDone(Last(lines[r]))
         /\ \E j \in 1..Len(out[r]) : IsTerminalFrame(out[r][j])
    /\ (\E j \in 1..Len(out[r]) : IsErrorFrame(out[r][j])) => AssistantTurns(r) = {}
    /\ (pc[r] = "closed" /\ DoneFrames(r) = {}) => AssistantTurns(r) = {}

C3_Witness ==
  /\ pc[1] = "closed"
  /\ lines[1] = <<LineContentA, LineArray>>
  /\ out[1] = <<ChunkFrame(<<"a">>), ErrorFrame(ExceptionMsg("AttributeError"))>>
  /\ appended[1] = <<OwnUserTurn(1)>>

\* C4: when the backend connection cannot be opened the caller gets one
\* frame, an error frame with done=true, and the transcript gains the user
\* turn of the request alone.
C4_ConnectFailure ==
  \A r \in Requests :
    conn[r] \in ConnectErrors =>
      /\ Len(out[r]) = 1
      /\ IsErrorFrame(out[r][1])
      /\ appended[r] = <<OwnUserTurn(r)>>
      /\ (~clearedSince[r] /\ \A q \in Requests \ {r} : req[q].session_id # req[r].session_id)
           => conversations[req[r].session_id] = <<OwnUserTurn(r)>>

C4_Witness ==
  /\ pc[1] = "closed"
  /\ conn[1] = "ConnectError"
  /\ out[1] = <<ErrorFrame(ConnectErrorMsg("none"))>>
  /\ conversations[req[1].session_id] = <<OwnUserTurn(1)>>

\* C5: lines that are not well-formed frames are skipped: after reading
\* only such lines the relay has emitted no frame (but for a failed read)
\* and accumulated nothing.
C5_MalformedLinesAreSkipped ==
  \A r \in Requests :
    (\A i \in 1..Len(lines[r]) : Malformed(lines[r][i])) =>
      /\ full_response[r] = <<>>
      /\ \A j \in 1..Len(out[r]) :
           \E e \in ConnectErrors \cup ReadErrors :
             out[r][j] \in {ErrorFrame(ExceptionMsg(e)),
                            ErrorFrame(ConnectErrorMsg(req[r].image_base64))}

\* C6: a backend frame that reports an error yields an error frame with
\* done=true carrying its message, and no assistant turn.
C6_UpstreamErrorSurfaced ==
  \A r \in Requests :
    \A i \in 1..Len(lines[r]) :
      IsUpstreamError(lines[r][i]) =>
        /\ \E j \in 1..Len(out[r]) :
             out[r][j] = ErrorFrame(lines[r][i].val.f.error.s)
        /\ AssistantTurns(r) = {}

\* C7: a line that signals done is the last line the request reads, the
\* terminal frame is the last frame it emits, and it commits once.
C7_NothingAfterDone ==
  \A r \in Requests :
    /\ \A i \in 1..Len(lines[r]) : SignalsDone(lines[r][i]) => i = Len(lines[r])
    /\ \A j \in 1..Len(out[r]) : out[r][j].done => j = Len(out[r])
    /\ Cardinality(AssistantTurns(r)) <= 1
    /\ pc[r] = "closed" /\ lines[r] # <<>> /\ SignalsDone(Last(lines[r])) =>
         /\ Last(out[r]) = TerminalFrame
         /\ Cardinality(AssistantTurns(r)) = 1

C7_Witness ==
  /\ pc[1] = "closed"
  /\ lines[1] = <<LineContentDone>>
  /\ Len(lines[1]) < MaxLines
  /\ out[1] = <<ChunkFrame(<<"b">>), TerminalFrame>>

\* C8: the content-delta frames of a request are the texts of the backend
\* frames that carry text content, one for one, in order and unchanged, the
\* empty ones included; deltas "a", "", done give chunk "a", chunk "",
\* terminal and the transcript turn "a".
C8_DeltasForwardedInOrder ==
  \A r \in Requests :
    /\ ChunkSeq(out[r]) = ContentTexts(lines[r])
    /\ (lines[r] = <<LineContentA, LineContentEmpty, LineDone>>) =>
         /\ out[r] = <<ChunkFrame(<<"a">>), ChunkFrame(<<>>), TerminalFrame>>
         /\ appended[r] = <<OwnUserTurn(r), AssistantTurn(<<"a">>)>>

C8_Witness ==
  /\ pc[1] = "closed"
  /\ lines[1] = <<LineContentA, LineContentEmpty, LineDone>>
  /\ ~clearedSince[1]
  /\ conversations[req[1].session_id] = <<OwnUserTurn(1), AssistantTurn(<<"a">>)>>

\* C9: two requests on one session that both receive done, with no clear
\* since either started: the transcript holds both user turns and both
\* assistant turns, each assistant turn after its user turn and holding the
\* text of its own request; and no history read shows a turn that is not a
\* whole user turn or a whole committed response.
ReceivedDone(r) == \E j \in 1..Len(out[r]) : IsTerminalFrame(out[r][j])
OwnAssistantTurn(r) == AssistantTurn(Concat(ChunkSeq(out[r])))
WholeTurn(t) ==
  \E r \in Requests :
    \/ pc[r] # "idle" /\ t = OwnUserTurn(r)
    \/ ReceivedDone(r) /\ t = OwnAssistantTurn(r)

C9_ConcurrentRequestsKeepTurnsWhole ==
  /\ \A r1, r2 \in Requests :
       ( /\ r1 # r2
         /\ ReceivedDone(r1) /\ ReceivedDone(r2)
         /\ req[r1].session_id = req[r2].session_id
         /\ ~clearedSince[r1] /\ ~clearedSince[r2] ) =>
       LET T == conversations[req[r1].session_id] IN
         /\ \E i1, j1, i2, j2 \in 1..Len(T) :
              /\ Cardinality({i1, j1, i2, j2}) = 4
              /\ i1 < j1 /\ i2 < j2
              /\ T[i1] = OwnUserTurn(r1) /\ T[j1] = OwnAssistantTurn(r1)
              /\ T[i2] = OwnUserTurn(r2) /\ T[j2] = OwnAssistantTurn(r2)
         /\ \A i \in 1..Len(T) : WholeTurn(T[i])
  /\ "history" \in DOMAIN reply =>
       \A i \in 1..Len(reply.history) : WholeTurn(reply.history[i])

C9_Witness ==
  /\ pc[1] = "closed" /\ pc[2] = "closed"
  /\ req[1].session_id = req[2].session_id
  /\ ~clearedSince[1] /\ ~clearedSince[2]
  /\ lines[1] = <<LineContentDone>> /\ lines[2] = <<LineDone>>
  /\ conversations[req[1].session_id] =
       <<OwnUserTurn(1), OwnUserTurn(2), AssistantTurn(<<>>), AssistantTurn(<<"b">>)>>
  /\ "history" \in DOMAIN reply /\ Len(reply.history) = 3

\* C10: a request whose caller has disconnected reads no further line,
\* emits nothing and appends nothing; an assistant turn it has appended was
\* appended with the terminal frame, before the disconnect.
Cancelled(r) == pc[r] = "cancelled"

C10_DisconnectSkipsCommit ==
  /\ [](\A r \in Requests :
          (Cancelled(r) /\ AssistantTurns(r) # {}) =>
            (out[r] # <<>> /\ IsTerminalFrame(Last(out[r]))))
  /\ [][\A r \in Requests :
          Cancelled(r) =>
            /\ pc'[r] = pc[r]
            /\ lines'[r] = lines[r]
            /\ out'[r] = out[r]
            /\ appended'[r] = appended[r]]_vars

C10_Witness ==
  /\ Cancelled(1)
  /\ lines[1] = <<LineContentA, LineContentDone>>
  /\ out[1] = <<ChunkFrame(<<"a">>), ChunkFrame(<<"b">>)>>
  /\ full_response[1] = <<"a", "b">>
  /\ ~clearedSince[1]
  /\ conversations[req[1].session_id] = <<OwnUserTurn(1)>>

\* A step of clear_chat and a step of get_history, told by the response.
ClearStep == reply' = [status |-> "cleared"] /\ UNCHANGED <<pc, lines, out, appended>>
HistoryStep == "history" \in DOMAIN reply' /\ reply' # reply
IsPrefix(s, t) == Len(s) <= Len(t) /\ SubSeq(t, 1, Len(s)) = s
Started(r) == pc[r] # "idle"
Transcript(r) == conversations[req[r].session_id]

\* s is t with some elements left out, the order kept.
RECURSIVE IsSubsequence(_, _)
IsSubsequence(s, t) ==
  IF s = <<>> THEN TRUE
  ELSE IF t = <<>> THEN FALSE
  ELSE IF Head(s) = Head(t) THEN IsSubsequence(Tail(s), Tail(t))
  ELSE IsSubsequence(s, Tail(t))

\* C11: a step leaves every transcript as it is, adds one turn at its end,
\* or is a clear that empties it; history returns the transcript as it
\* stands; so the turns a request appended since the last clear are in the
\* transcript in the order it appended them.
C11_HistoryInAppendOrder ==
  /\ [][\A k \in DOMAIN conversations :
          /\ k \in DOMAIN conversations'
          /\ \/ conversations'[k] = conversations[k]
             \/ /\ IsPrefix(conversations[k], conversations'[k])
                /\ Len(conversations'[k]) = Len(conversations[k]) + 1
             \/ ClearStep /\ conversations'[k] = <<>>]_vars
  /\ [][HistoryStep =>
          /\ conversations' = conversations
          /\ \E key \in SessionIds :
               reply'.history = IF HasKey(key) THEN conversations[key] ELSE <<>>]_vars
  /\ [](\A r \in Requests :
          (Started(r) /\ ~clearedSince[r]) => IsSubsequence(appended[r], Transcript(r)))

C11_Witness ==
  /\ "history" \in DOMAIN reply
  /\ ~clearedSince[1] /\ ~clearedSince[2]
  /\ req[1].session_id = req[2].session_id
  /\ reply.history = <<OwnUserTurn(2), OwnUserTurn(1), AssistantTurn(<<"b">>), AssistantTurn(<<>>)>>
  /\ reply.history = Transcript(1)
  /\ appended[1] = <<OwnUserTurn(1), AssistantTurn(<<"b">>)>>

C13_UnsupportedModalityBeforeNetwork ==
  \A r \in Requests :
    (Started(r) /\ req[r].image_base64 # "none" /\ ~vision_available) =>
      /\ conn[r] = "pending"
      /\ AssistantTurns(r) = {}
      /\ pc[r] = "closed" => (Len(out[r]) = 1 /\ IsErrorFrame(out[r][1]))

\* C14: every request that has started eventually ends: its generator
\* returns or is cancelled.
Ended(r) == pc[r] \in {"closed", "cancelled"}

C14_EveryRequestEnds == \A r \in Requests : Started(r) ~> Ended(r)

\* C15: the messages of a request are the system turn followed by the
\* transcript as it stands right after the request's user turn is appended,
\* so they end with that turn; they do not change afterwards; and no
\* transcript holds a turn that is not a user or an assistant turn.
StartStep(r) == pc[r] = "idle" /\ pc'[r] # "idle"

C15_MessagesAreSystemThenTranscript ==
  /\ [](\A r \in Requests :
          Started(r) =>
            /\ Len(messages[r]) >= 2
            /\ Head(messages[r]) = SystemTurn
            /\ Last(messages[r]) = OwnUserTurn(r))
  /\ [](\A k \in DOMAIN conversations :
          \A i \in 1..Len(conversations[k]) :
            conversations[k][i].role \in {"user", "assistant"})
  /\ [][\A r \in Requests :
          /\ StartStep(r) =>
               LET key == req'[r].session_id
                   old == IF HasKey(key) THEN conversations[key] ELSE <<>>
               IN /\ conversations'[key] = Append(old, UserTurn(req'[r].message, req'[r].image_base64))
                  /\ messages'[r] = <<SystemTurn>> \o conversations'[key]
          /\ Started(r) => messages'[r] = messages[r]]_vars

C15_Witness ==
  /\ pc[1] = "reading" /\ pc[2] = "yield_done"
  /\ req[1].session_id = req[2].session_id
  /\ messages[1] = <<SystemTurn, OwnUserTurn(2), OwnUserTurn(1)>>
  /\ messages[2] = <<SystemTurn, OwnUserTurn(2)>>
  /\ Transcript(1) = <<OwnUserTurn(2), OwnUserTurn(1), AssistantTurn(<<"b">>)>>

\* C16: a request whose session was cleared while it streamed still commits
\* when it decodes a done frame: the assistant turn lands at the end of the
\* transcript as the clear left it (alone, when nothing was appended since),
\* the terminal frame follows, and the request's user turn is not put back.
CommitStep(r) == Started(r) /\ Len(appended'[r]) > Len(appended[r])

C16_CommitLandsAfterClear ==
  /\ [](\A r \in Requests :
          clearedSince[r] =>
            /\ \A i \in 1..Len(Transcript(r)) : Transcript(r)[i] # OwnUserTurn(r)
            /\ (lines[r] # <<>> /\ SignalsDone(Last(lines[r])) /\ pc[r] \in {"yield_done", "closed"})
                 => (out[r] # <<>> /\ Last(out[r]) = TerminalFrame))
  /\ [][\A r \in Requests :
          CommitStep(r) =>
            /\ Last(out'[r]) = TerminalFrame
            /\ Last(appended'[r]) = AssistantTurn(Concat(ChunkSeq(out'[r])))
            /\ conversations'[req[r].session_id] = Append(Transcript(r), Last(appended'[r]))
            /\ (clearedSince[r] /\ Transcript(r) = <<>>) =>
                 conversations'[req[r].session_id] = <<AssistantTurn(full_response[r])>>]_vars

C16_Witness ==
  /\ clearedSince[1]
  /\ pc[1] = "closed"
  /\ lines[1] = <<LineContentDone>>
  /\ Transcript(1) = <<AssistantTurn(<<"b">>)>>
  /\ pc[2] = "idle"

\* C17: a started request uses the vision model exactly when it carries an
\* image itself; the last user turn of the messages it sends is its own turn,
\* which carries the image exactly when the vision model was chosen, whatever
\* the other request on the session does; its own turn in the transcript
\* carries the same attachment.
HasImages(turn) == "images" \in DOMAIN turn
UserTurnsOf(ms) == SelectSeq(ms, LAMBDA t : t.role = "user")

C17_ModelMatchesOwnAttachment ==
  \A r \in Requests :
    Started(r) =>
      /\ model[r] = "llava" <=> req[r].image_base64 # "none"
      /\ model[r] = "qwen2.5:0.5b" <=> req[r].image_base64 = "none"
      /\ UserTurnsOf(messages[r]) # <<>>
      /\ Last(UserTurnsOf(messages[r])) = OwnUserTurn(r)
      /\ HasImages(Last(UserTurnsOf(messages[r]))) <=> model[r] = "llava"
      /\ HasImages(OwnUserTurn(r)) => OwnUserTurn(r).images = <<req[r].image_base64>>
      /\ ~clearedSince[r] =>
           \E i \in 1..Len(Transcript(r)) : Transcript(r)[i] = OwnUserTurn(r)

\* Two requests in flight on one session: the earlier one carries no image,
\* the later one does.
C17_Witness ==
  /\ Started(1) /\ Started(2)
  /\ req[1].session_id = req[2].session_id
  /\ model[1] = "llava" /\ model[2] = "qwen2.5:0.5b"
  /\ Len(messages[1]) = 3 /\ Len(messages[2]) = 2
  /\ HasImages(Transcript(1)[2]) /\ ~HasImages(Transcript(1)[1])

\* C18: a step changes the transcript of at most one session: a step of a
\* request only that of the request's session, a clear only that of its key,
\* a history read none.  So a session used by one request holds exactly what
\* that request appended to it since the last clear of that session, whatever
\* ran on the other session.
IsSuffix(s, t) == Len(s) <= Len(t) /\ SubSeq(t, Len(t) - Len(s) + 1, Len(t)) = s
RequestsOn(k) == {r \in Requests : Started(r) /\ req[r].session_id = k}
Changed(k) == (k \in DOMAIN conversations) # (k \in DOMAIN conversations')
              \/ (k \in DOMAIN conversations /\ conversations'[k] # conversations[k])
RequestStep(r) == <<pc[r], lines[r], out[r]>> # <<pc'[r], lines'[r], out'[r]>>

C18_OtherSessionsUntouched ==
  /\ [][/\ Cardinality({k \in SessionIds : Changed(k)}) <= 1
        /\ \A r \in Requests : RequestStep(r) =>
             \A k \in SessionIds \ {req'[r].session_id} : ~Changed(k)
        /\ HistoryStep => \A k \in SessionIds : ~Changed(k)]_vars
  /\ [](\A k \in SessionIds :
          /\ RequestsOn(k) = {} => (HasKey(k) => conversations[k] = <<>>)
          /\ \A r \in Requests : RequestsOn(k) = {r} =>
               /\ IsSuffix(conversations[k], appended[r])
               /\ ~clearedSince[r] => conversations[k] = appended[r])

\* Both requests ran to the end on different sessions, one of the sessions
\* was cleared in between, and a history read came last.
C18_Witness ==
  /\ pc[1] = "closed" /\ pc[2] = "closed"
  /\ req[1].session_id = "s1" /\ req[2].session_id = "s2"
  /\ clearedSince[1] /\ ~clearedSince[2]
  /\ conversations["s1"] = <<AssistantTurn(<<"b">>)>>
  /\ conversations["s2"] = <<OwnUserTurn(2), AssistantTurn(<<>>)>>
  /\ "history" \in DOMAIN reply

\* C19: no step removes a session key; a key appears only in the step that
\* starts a chat request on it; clear and history leave the key set as it
\* is.  So the key of a started request exists in every later state, and no
\* request ends with the error frame of a failed transcript lookup.
KeyErrorFrame == ErrorFrame(ExceptionMsg("KeyError"))

C19_SessionKeysOnlyGrow ==
  /\ [][/\ DOMAIN conversations \subseteq DOMAIN conversations'
        /\ \A k \in DOMAIN conversations' \ DOMAIN conversations :
             \E r \in Requests : StartStep(r) /\ req'[r].session_id = k
        /\ (ClearStep \/ HistoryStep) => DOMAIN conversations' = DOMAIN conversations]_vars
  /\ [](\A r \in Requests :
          Started(r) =>
            /\ HasKey(req[r].session_id)
            /\ \A i \in 1..Len(out[r]) : out[r][i] # KeyErrorFrame)

\* A clear ran while the request streamed, and the request then committed.
C19_Witness ==
  /\ Started(2) /\ clearedSince[2]
  /\ ReceivedDone(2)
  /\ Transcript(2) = <<AssistantTurn(<<>>)>>
  /\ DOMAIN conversations = {req[2].session_id}
  /\ reply = [status |-> "cleared"]

\* C20, as stated: on a session no clear has touched, the assistant turns of
\* the transcript are as many as the requests of the session that have
\* decoded a line signalling done, at most as many as its user turns, which
\* are as many as the requests started on it.  A request suspended at the
\* yield of the content of its done line has decoded the line and has not
\* committed.
TurnsWithRole(ts, role) == Cardinality({i \in 1..Len(ts) : ts[i].role = role})
Uncleared(k) == \A r \in RequestsOn(k) : ~clearedSince[r]
DecodedDone(r) == \E i \in 1..Len(lines[r]) : SignalsDone(lines[r][i])
Holds(ts, turn) == \E i \in 1..Len(ts) : ts[i] = turn

C20_AssistantTurnsCountDecodedDone ==
  \A k \in DOMAIN conversations :
    Uncleared(k) =>
      /\ TurnsWithRole(conversations[k], "assistant")
           = Cardinality({r \in RequestsOn(k) : DecodedDone(r)})
      /\ TurnsWithRole(conversations[k], "assistant") <= TurnsWithRole(conversations[k], "user")
      /\ TurnsWithRole(conversations[k], "user") = Cardinality(RequestsOn(k))

\* C20, amended: the assistant turns are as many as the requests of the
\* session that have reached the done check of a line signalling done (each
\* of them has decoded such a line); the rest as stated.  Every started
\* request's user turn stays in the transcript, and of two requests of the
\* session the later one sent the earlier one's user turn as context.
C20_AssistantTurnsCountCommits ==
  \A k \in DOMAIN conversations :
    Uncleared(k) =>
      /\ TurnsWithRole(conversations[k], "assistant")
           = Cardinality({r \in RequestsOn(k) : ReceivedDone(r)})
      /\ \A r \in RequestsOn(k) : ReceivedDone(r) => DecodedDone(r)
      /\ TurnsWithRole(conversations[k], "assistant") <= TurnsWithRole(conversations[k], "user")
      /\ TurnsWithRole(conversations[k], "user") = Cardinality(RequestsOn(k))
      /\ Len(conversations[k]) = TurnsWithRole(conversations[k], "assistant")
                                   + TurnsWithRole(conversations[k], "user")
      /\ \A r \in RequestsOn(k) : Holds(conversations[k], OwnUserTurn(r))
      /\ \A r1, r2 \in RequestsOn(k) :
           r1 # r2 => \/ Holds(messages[r2], OwnUserTurn(r1))
                      \/ Holds(messages[r1], OwnUserTurn(r2))

\* Request 1 failed to connect; request 2 started later on the same session,
\* sent request 1's user turn as context and committed its response.
C20_Witness ==
  /\ pc[1] = "closed" /\ pc[2] = "closed"
  /\ req[1].session_id = req[2].session_id
  /\ ~clearedSince[1] /\ ~clearedSince[2]
  /\ conn[1] # "ok" /\ IsErrorFrame(Last(out[1]))
  /\ ReceivedDone(2)
  /\ messages[2] = <<SystemTurn, OwnUserTurn(1), OwnUserTurn(2)>>
  /\ Transcript(2) = <<OwnUserTurn(1), OwnUserTurn(2), AssistantTurn(<<"b">>)>>

====
